---- MODULE Spec2Model ----
(***************************************************************************)
(* A model of src/app.py: the gallery loader that runs at import time      *)
(* (lines 16-45), the POST /recognize handler recognize_face_endpoint      *)
(* (lines 51-132) and the GET /health handler health_check (lines 135-137).*)
(*                                                                         *)
(* Strings are sequences of one-character strings, so that str.lower,      *)
(* str.endswith, os.path.splitext, the `in` operator and len() are         *)
(* computed and not assumed.  Embeddings are points of a one-dimensional   *)
(* space in units of 0.01, so that the Euclidean distance is |a - b| and   *)
(* RECOGNITION_TOLERANCE = 0.55 is 55.                                     *)
(***************************************************************************)
EXTENDS Integers, Sequences, FiniteSets, TLC

VARIABLES
    pc,                     \* "loading" (lines 21-43) or "serving" (app.run)
    listing,                \* os.listdir(KNOWN_FACES_DIR), line 21
    idx,                    \* number of listing entries the loop has consumed
    known_face_encodings,   \* line 18
    known_face_names,       \* line 19
    loaded_log,             \* the count printed at line 45 (-1: not printed)
    cv_empty_raises,        \* the OpenCV build: imdecode of an empty buffer
                            \* raises cv2.error (TRUE) or returns None (FALSE)
    req                     \* per worker thread: the request it is serving

vars == <<pc, listing, idx, known_face_encodings, known_face_names,
          loaded_log, cv_empty_raises, req>>

(***************************************************************************)
(* Bounds of the model.                                                    *)
(***************************************************************************)
MaxFiles == 2        \* files in the gallery directory
MaxFaces == 2        \* faces detected in one submitted image

(***************************************************************************)
(* Configuration (lines 10-14).                                            *)
(***************************************************************************)
RECOGNITION_TOLERANCE == 55

(***************************************************************************)
(* Strings.                                                                *)
(***************************************************************************)
UpperChars == <<"A","B","C","D","E","F","G","H","I","J","K","L","M",
                "N","O","P","Q","R","S","T","U","V","W","X","Y","Z">>
LowerChars == <<"a","b","c","d","e","f","g","h","i","j","k","l","m",
                "n","o","p","q","r","s","t","u","v","w","x","y","z">>

\* str.lower() on one character
LowerChar(c) ==
    IF \E i \in 1..26 : UpperChars[i] = c
    THEN LowerChars[CHOOSE i \in 1..26 : UpperChars[i] = c]
    ELSE c

\* str.lower()
Lower(s) == [i \in 1..Len(s) |-> LowerChar(s[i])]

\* str.endswith(suffix)
EndsWith(s, suf) ==
    /\ Len(s) >= Len(suf)
    /\ SubSeq(s, Len(s) - Len(suf) + 1, Len(s)) = suf

\* str.endswith(('.png', '.jpg', '.jpeg')) of line 22
SupportedExtensions ==
    { <<".","p","n","g">>, <<".","j","p","g">>, <<".","j","p","e","g">> }

HasSupportedExtension(filename) ==
    \E e \in SupportedExtensions : EndsWith(Lower(filename), e)

\* str.rfind of one character, 1-based, 0 when absent
RFind(s, c) ==
    IF \E i \in 1..Len(s) : s[i] = c
    THEN CHOOSE i \in 1..Len(s) : s[i] = c /\ \A j \in (i+1)..Len(s) : s[j] # c
    ELSE 0

\* os.path.splitext(filename)[0] for a name without directory separators:
\* the part before the last dot, unless only dots precede that dot.
SplitextStem(p) ==
    LET dotIndex == RFind(p, ".")
    IN  IF dotIndex > 0 /\ \E i \in 1..(dotIndex - 1) : p[i] # "."
        THEN SubSeq(p, 1, dotIndex - 1)
        ELSE p

\* x in s for two str: substring test
IsSubstring(sub, s) ==
    \E i \in 0..(Len(s) - Len(sub)) : SubSeq(s, i + 1, i + Len(sub)) = sub

Unknown == <<"U","n","k","n","o","w","n">>
ImageDataKey == <<"i","m","a","g","e","D","a","t","a">>

(***************************************************************************)
(* The gallery directory.  A directory entry is its filename and what      *)
(* face_recognition makes of it: load_image_file / face_encodings raise    *)
(* ("error"), or face_encodings returns a list of embeddings.              *)
(***************************************************************************)
File(n, l, e) == [filename |-> n, load |-> l, encodings |-> e]

DirEntries ==
    { File(<<"a",".","j","p","g">>,                       "ok",    <<0>>),
      File(<<"a",".","p","n","g">>,                       "ok",    <<80>>),
      File(<<"b",".","P","N","G">>,                       "ok",    <<80, 0>>),
      File(<<"U","n","k","n","o","w","n",".","j","p","e","g">>, "ok", <<0>>),
      File(<<".","j","p","g">>,                           "ok",    <<80>>),
      File(<<"n",".","t","x","t">>,                       "ok",    <<0>>),
      File(<<"c",".","j","p","g">>,                       "error", <<>>),
      File(<<"d",".","J","p","g">>,                       "ok",    <<>>) }

\* Directory listings: up to MaxFiles entries with distinct filenames, in
\* any order (os.listdir returns them in arbitrary order).
RECURSIVE ListingsOfLen(_)
ListingsOfLen(n) ==
    IF n = 0 THEN { <<>> }
    ELSE { Append(l, f) : l \in ListingsOfLen(n - 1), f \in DirEntries }

DistinctNames(l) ==
    \A i, j \in 1..Len(l) : i # j => l[i].filename # l[j].filename

Listings ==
    { l \in UNION { ListingsOfLen(n) : n \in 0..MaxFiles } : DistinctNames(l) }

(***************************************************************************)
(* Gallery loader, lines 21-43: one iteration of the for loop.             *)
(***************************************************************************)
\* the gallery after the loop body has run on file f
LoadedEncodings(encs, f) ==
    IF /\ HasSupportedExtension(f.filename)
       /\ f.load = "ok"
       /\ f.encodings # <<>>
    THEN Append(encs, f.encodings[1])
    ELSE encs

LoadedNames(names, f) ==
    IF /\ HasSupportedExtension(f.filename)
       /\ f.load = "ok"
       /\ f.encodings # <<>>
    THEN Append(names, SplitextStem(f.filename))
    ELSE names

(***************************************************************************)
(* JSON values, as flask.request.get_json() returns them.                  *)
(***************************************************************************)
JNull      == [t |-> "null"]
JNumber    == [t |-> "number"]
JBool      == [t |-> "bool"]
JStr(s)    == [t |-> "string", s |-> s]
JArr(a)    == [t |-> "array", items |-> a]
JObj(f)    == [t |-> "object", fields |-> f]    \* f: a function from keys

\* 'imageData' in request_json (line 65): "true", "false", or the TypeError
\* Python raises for an operand that is not a container.
PyContains(j) ==
    CASE j.t = "object" -> IF ImageDataKey \in DOMAIN j.fields THEN "true" ELSE "false"
      [] j.t = "array"  -> IF \E i \in 1..Len(j.items) : j.items[i] = JStr(ImageDataKey)
                           THEN "true" ELSE "false"
      [] j.t = "string" -> IF IsSubstring(ImageDataKey, j.s) THEN "true" ELSE "false"
      [] OTHER          -> "TypeError"

\* request_json['imageData'] (line 69) can be evaluated: only a dict is
\* indexed by a str; a list or a str raises TypeError.
PyGetItemRaises(j) == j.t # "object"

\* len(base64_image_data) (line 74): -1 stands for the TypeError of an
\* operand without a length.
PyLen(v) ==
    CASE v.t = "string" -> Len(v.s)
      [] v.t = "array"  -> Len(v.items)
      [] v.t = "object" -> Cardinality(DOMAIN v.fields)
      [] OTHER          -> -1

(***************************************************************************)
(* base64.b64decode (line 78) on a str: the str is encoded as ASCII, then  *)
(* binascii.a2b_base64 runs in its non-strict mode: characters outside the *)
(* alphabet are skipped, a pad ends the data once the quad holds at least  *)
(* two characters and the pads complete it, and a quad left incomplete at  *)
(* the end is an error.  The result is an error or the number of bytes.    *)
(***************************************************************************)
NonAscii == "U+00E9"     \* stands for one character outside ASCII

Digits == {"0","1","2","3","4","5","6","7","8","9"}
B64Alphabet ==
    { UpperChars[i] : i \in 1..26 } \cup { LowerChars[i] : i \in 1..26 }
        \cup Digits \cup {"+", "/"}

RECURSIVE A2bBase64(_, _, _, _, _)
A2bBase64(s, i, quad_pos, pads, n) ==
    IF i > Len(s)
    THEN [err |-> quad_pos # 0, n |-> n]
    ELSE IF s[i] = "="
         THEN IF quad_pos >= 2 /\ quad_pos + pads + 1 >= 4
              THEN [err |-> FALSE, n |-> n]
              ELSE A2bBase64(s, i + 1, quad_pos,
                             IF quad_pos >= 2 THEN pads + 1 ELSE pads, n)
         ELSE IF s[i] \notin B64Alphabet
              THEN A2bBase64(s, i + 1, quad_pos, pads, n)
              ELSE A2bBase64(s, i + 1, (quad_pos + 1) % 4, 0,
                             IF quad_pos = 0 THEN n ELSE n + 1)

B64Decode(s) ==
    IF \E i \in 1..Len(s) : s[i] = NonAscii
    THEN [err |-> TRUE, n |-> 0]
    ELSE A2bBase64(s, 1, 0, 0, 0)

\* lines 74-76: pad the string to a multiple of four characters
RECURSIVE Pads(_)
Pads(k) == IF k = 0 THEN <<>> ELSE Append(Pads(k - 1), "=")

PadCorrect(s) ==
    LET missing_padding == Len(s) % 4
    IN  IF missing_padding # 0 THEN s \o Pads(4 - missing_padding) ELSE s

(***************************************************************************)
(* What OpenCV and face_recognition make of the decoded bytes of a         *)
(* request when there are any: not an image (imdecode returns None), or    *)
(* an image in which face detection raises or yields a list of embeddings. *)
(***************************************************************************)
Content(im, d, f) == [image |-> im, detect |-> d, faces |-> f]
NoImage == Content(FALSE, "ok", <<>>)

FaceEmbeddings == {40, 55, 140}

RECURSIVE FaceListsOfLen(_)
FaceListsOfLen(n) ==
    IF n = 0 THEN { <<>> }
    ELSE { Append(l, e) : l \in FaceListsOfLen(n - 1), e \in FaceEmbeddings }

\* the faces of one image have distinct embeddings
FaceLists ==
    { l \in UNION { FaceListsOfLen(n) : n \in 0..MaxFaces } :
        \A i, j \in 1..Len(l) : i # j => l[i] # l[j] }

(***************************************************************************)
(* Requests.                                                               *)
(***************************************************************************)
Body(isj, parses, j, c) ==
    [route |-> "recognize", is_json |-> isj, parses |-> parses, json |-> j,
     content |-> c]

Q4 == <<"Q","Q","Q","Q">>

\* imageData strings whose bytes, if any, are not an image
B64Strings ==
    { <<>>, <<"=">>, <<"Q">>, <<"Q","Q">>, <<"Q","Q","Q">>, Q4,
      <<" ","Q","Q","Q">>, <<"Q","Q","=">>, <<NonAscii>> }

WithImageData(v, c) == Body(TRUE, TRUE, JObj(ImageDataKey :> v), c)

Bodies ==
    { Body(FALSE, FALSE, JNull, NoImage),          \* Content-Type is not JSON
      Body(TRUE, FALSE, JNull, NoImage) }          \* JSON that does not parse
    \cup { Body(TRUE, TRUE, j, NoImage) :
            j \in { JNull, JNumber, JBool,
                    JStr(<<"a","b">>), JStr(<<"x">> \o ImageDataKey),
                    JArr(<<>>), JArr(<<JStr(ImageDataKey)>>),
                    JObj(<<>>), JObj(<<"o">> :> JNumber) } }
    \cup { WithImageData(v, NoImage) :
            v \in { JNull, JNumber, JArr(<<>>), JObj(<<>>) } }
    \cup { WithImageData(JStr(s), NoImage) : s \in B64Strings }
    \cup { WithImageData(JStr(Q4), Content(TRUE, "ok", f)) : f \in FaceLists }
    \cup { WithImageData(JStr(Q4), Content(TRUE, "raise", <<>>)),
           WithImageData(JStr(<<"Q","Q","Q">>), Content(TRUE, "ok", <<40>>)) }

(***************************************************************************)
(* Responses.  None is <<>>; an error message is a tuple of its parts.     *)
(***************************************************************************)
None == <<>>

Json(status, recognized, name, error) ==
    [kind |-> "json", status |-> status, recognized |-> recognized,
     name |-> name, error |-> error]

\* An exception that leaves recognize_face_endpoint: Flask answers a
\* werkzeug HTTPException with its own page and code, anything else with
\* its 500 page.
Unhandled(exc) ==
    [kind |-> "unhandled", exc |-> exc,
     status |-> IF exc = "BadRequest" THEN 400 ELSE 500]

\* lines 125-132: the two except clauses; binascii.Error is a ValueError
Except(exc, detail) ==
    IF exc = "ValueError"
    THEN Json(400, FALSE, Unknown, <<"Image processing error: ", detail>>)
    ELSE Json(500, FALSE, Unknown, <<"Internal server error: ", detail>>)

CouldNotDecode == "Could not decode image data. Is it a valid image format?"

\* lines 74-97: what the try block does up to the loop: an exception
\* (exc, detail) or the face encodings of the frame.
Raise(exc, detail) == [exc |-> exc, detail |-> detail, faces |-> <<>>]

DecodeStage(v, content, empty_raises) ==
    IF PyLen(v) = -1 THEN Raise("TypeError", "len")
    ELSE IF v.t = "object" /\ PyLen(v) % 4 # 0 THEN Raise("TypeError", "+=")
    ELSE IF v.t # "string" THEN Raise("TypeError", "b64decode")
    ELSE LET image_bytes == B64Decode(PadCorrect(v.s))
         IN  IF image_bytes.err THEN Raise("ValueError", "b64decode")
             ELSE IF image_bytes.n = 0
                  THEN IF empty_raises THEN Raise("cv2.error", "imdecode")
                       ELSE Raise("ValueError", CouldNotDecode)
             ELSE IF ~content.image THEN Raise("ValueError", CouldNotDecode)
             ELSE IF content.detect = "raise" THEN Raise("RuntimeError", "dlib")
             ELSE [exc |-> "none", detail |-> "", faces |-> content.faces]

\* lines 57-99: the handler up to the loop.  Either the response, or the
\* state in which the loop starts.
Done(b, r) == [state |-> "done", body |-> b, resp |-> r]

Looping(b, f, i, n) ==
    [state |-> "loop", body |-> b, face_encodings |-> f, i |-> i,
     recognized_name |-> n]

Receive(b, empty_raises) ==
    IF ~b.is_json
    THEN Done(b, Json(400, FALSE, Unknown, <<"Request must be JSON">>))
    ELSE IF ~b.parses THEN Done(b, Unhandled("BadRequest"))
    ELSE IF PyContains(b.json) = "TypeError" THEN Done(b, Unhandled("TypeError"))
    ELSE IF PyContains(b.json) = "false"
    THEN Done(b, Json(400, FALSE, Unknown,
                      <<"Missing 'imageData' key in JSON payload">>))
    ELSE IF PyGetItemRaises(b.json) THEN Done(b, Unhandled("TypeError"))
    ELSE LET d == DecodeStage(b.json.fields[ImageDataKey], b.content, empty_raises)
         IN  IF d.exc # "none" THEN Done(b, Except(d.exc, d.detail))
             ELSE Looping(b, d.faces, 1, Unknown)

(***************************************************************************)
(* Matching, lines 102-113.                                                *)
(***************************************************************************)
Abs(x) == IF x < 0 THEN -x ELSE x

\* face_recognition.face_distance: the Euclidean distance to every entry
FaceDistance(encs, face) == [k \in 1..Len(encs) |-> Abs(encs[k] - face)]

\* CompareFaces with the library's default tolerance of 0.6 in place of
\* RECOGNITION_TOLERANCE (the tolerance argument left out)
CompareFaces_DefaultTolerance(encs, face) ==
    [k \in 1..Len(encs) |-> Abs(encs[k] - face) <= 60]

\* face_recognition.compare_faces: face_distance <= tolerance
CompareFaces(encs, face) ==
    [k \in 1..Len(encs) |-> FaceDistance(encs, face)[k] <= RECOGNITION_TOLERANCE]

\* np.argmin: the first index of the minimum
ArgMin(d) ==
    CHOOSE k \in 1..Len(d) :
        /\ \A m \in 1..Len(d) : d[k] <= d[m]
        /\ \A m \in 1..(k - 1) : d[m] > d[k]

\* MatchOf taking the first entry within the tolerance and not the nearest
MatchOf_FirstTrue(encs, names, face) ==
    IF \E k \in 1..Len(encs) : Abs(encs[k] - face) <= RECOGNITION_TOLERANCE
    THEN names[CHOOSE k \in 1..Len(encs) :
                 /\ Abs(encs[k] - face) <= RECOGNITION_TOLERANCE
                 /\ \A m \in 1..(k - 1) : Abs(encs[m] - face) > RECOGNITION_TOLERANCE]
    ELSE <<>>

\* one iteration of the loop on one face: the name assigned at line 112,
\* or NoMatch when the iteration assigns nothing and does not break
NoMatch == <<>>

MatchOf(encs, names, face) ==
    LET matches == CompareFaces(encs, face)
        face_distances == FaceDistance(encs, face)
    IN  IF Len(face_distances) > 0 /\ matches[ArgMin(face_distances)]
        THEN names[ArgMin(face_distances)]
        ELSE NoMatch

\* PrepareResponse without the test of line 116
PrepareResponse_AlwaysRecognized(recognized_name) ==
    [kind |-> "json", status |-> 200, recognized |-> TRUE,
     name |-> recognized_name, error |-> <<>>]

\* lines 116-123: the response of a request that raised nothing
PrepareResponse(recognized_name) ==
    IF recognized_name # Unknown
    THEN Json(200, TRUE, recognized_name, None)
    ELSE Json(200, FALSE, Unknown, None)

\* HealthResponse counting the distinct names and not the entries
HealthResponse_DistinctNames(names) ==
    [kind |-> "health", status |-> 200, ok |-> "ok",
     known_faces_loaded |-> Cardinality({ names[k] : k \in 1..Len(names) })]

\* line 137
HealthResponse(names) ==
    [kind |-> "health", status |-> 200, ok |-> "ok",
     known_faces_loaded |-> Len(names)]

HealthRequest == [route |-> "health"]

Idle == [state |-> "idle"]
Threads == {"t1", "t2"}

Init ==
    /\ pc = "loading"
    /\ listing \in Listings
    /\ idx = 0
    /\ known_face_encodings = <<>>
    /\ known_face_names = <<>>
    /\ loaded_log = -1
    /\ cv_empty_raises \in BOOLEAN
    /\ req = [t \in Threads |-> Idle]

LoadFile ==
    /\ pc = "loading"
    /\ idx < Len(listing)
    /\ known_face_encodings' = LoadedEncodings(known_face_encodings, listing[idx + 1])
    /\ known_face_names' = LoadedNames(known_face_names, listing[idx + 1])
    /\ idx' = idx + 1
    /\ UNCHANGED <<pc, listing, loaded_log, cv_empty_raises, req>>

\* lines 45-49 and 140-143: the loop is over, the count is printed and the
\* application starts serving; the listing is a temporary of the loop.
StartServing ==
    /\ pc = "loading"
    /\ idx = Len(listing)
    /\ loaded_log' = Len(known_face_names)
    /\ pc' = "serving"
    /\ listing' = <<>>
    /\ idx' = 0
    /\ UNCHANGED <<known_face_encodings, known_face_names, cv_empty_raises, req>>

\* a worker thread takes a POST /recognize request and runs lines 57-99
Recognize(t) ==
    /\ pc = "serving"
    /\ req[t].state = "idle"
    /\ \E b \in Bodies : req' = [req EXCEPT ![t] = Receive(b, cv_empty_raises)]
    /\ UNCHANGED <<pc, listing, idx, known_face_encodings, known_face_names,
                   loaded_log, cv_empty_raises>>

\* MatchFace that enrols a face it does not recognise
MatchFace_Enrol(t) ==
    /\ pc = "serving"
    /\ req[t].state = "loop"
    /\ req[t].i <= Len(req[t].face_encodings)
    /\ LET face == req[t].face_encodings[req[t].i]
           m == MatchOf(known_face_encodings, known_face_names, face)
       IN  /\ req' = [req EXCEPT ![t] =
                       IF m # NoMatch
                       THEN [@ EXCEPT !.recognized_name = m,
                                      !.i = Len(req[t].face_encodings) + 1]
                       ELSE [@ EXCEPT !.i = @ + 1]]
           /\ known_face_encodings' =
                IF m # NoMatch THEN known_face_encodings
                ELSE Append(known_face_encodings, face)
           /\ known_face_names' =
                IF m # NoMatch THEN known_face_names
                ELSE Append(known_face_names, <<"n","e","w">>)
    /\ UNCHANGED <<pc, listing, idx, loaded_log, cv_empty_raises>>

\* one iteration of the for loop of line 102; a match breaks out of it
\* (the position i is then past the last face)
MatchFace(t) ==
    /\ pc = "serving"
    /\ req[t].state = "loop"
    /\ req[t].i <= Len(req[t].face_encodings)
    /\ LET m == MatchOf(known_face_encodings, known_face_names,
                        req[t].face_encodings[req[t].i])
       IN  req' = [req EXCEPT ![t] =
                    IF m # NoMatch
                    THEN [@ EXCEPT !.recognized_name = m,
                                   !.i = Len(req[t].face_encodings) + 1]
                    ELSE [@ EXCEPT !.i = @ + 1]]
    /\ UNCHANGED <<pc, listing, idx, known_face_encodings, known_face_names,
                   loaded_log, cv_empty_raises>>

\* the loop is over: lines 115-123
Respond(t) ==
    /\ pc = "serving"
    /\ req[t].state = "loop"
    /\ req[t].i > Len(req[t].face_encodings)
    /\ req' = [req EXCEPT ![t] =
                Done(@.body, PrepareResponse(@.recognized_name))]
    /\ UNCHANGED <<pc, listing, idx, known_face_encodings, known_face_names,
                   loaded_log, cv_empty_raises>>

\* a worker thread takes a GET /health request, lines 135-137
Health(t) ==
    /\ pc = "serving"
    /\ req[t].state = "idle"
    /\ req' = [req EXCEPT ![t] =
                Done(HealthRequest, HealthResponse(known_face_names))]
    /\ UNCHANGED <<pc, listing, idx, known_face_encodings, known_face_names,
                   loaded_log, cv_empty_raises>>

\* the response is sent and the thread is free again
Complete(t) ==
    /\ pc = "serving"
    /\ req[t].state = "done"
    /\ req' = [req EXCEPT ![t] = Idle]
    /\ UNCHANGED <<pc, listing, idx, known_face_encodings, known_face_names,
                   loaded_log, cv_empty_raises>>

Next ==
    \/ LoadFile
    \/ StartServing
    \/ \E t \in Threads : Recognize(t)
    \/ \E t \in Threads : MatchFace(t)
    \/ \E t \in Threads : Respond(t)
    \/ \E t \in Threads : Health(t)
    \/ \E t \in Threads : Complete(t)

Spec == Init /\ [][Next]_vars

(***************************************************************************)
(* Vocabulary of the properties, stated without the handler's operators.   *)
(***************************************************************************)
Recognized(t) == req[t].state = "done" /\ req[t].body.route = "recognize"

HasImageDataField(b) ==
    /\ b.is_json /\ b.parses
    /\ b.json.t = "object"
    /\ ImageDataKey \in DOMAIN b.json.fields

ImageDataOf(b) == b.json.fields[ImageDataKey]

\* imageData is a str that is valid base64 once padded
ValidBase64(b) ==
    /\ HasImageDataField(b)
    /\ ImageDataOf(b).t = "string"
    /\ ~B64Decode(PadCorrect(ImageDataOf(b).s)).err

DecodedBytes(b) == B64Decode(PadCorrect(ImageDataOf(b).s)).n

\* the request carries an image that decodes and in which detection ran
DecodedImage(b) ==
    /\ ValidBase64(b)
    /\ DecodedBytes(b) > 0
    /\ b.content.image
    /\ b.content.detect = "ok"

Within(e, face) == Abs(e - face) <= RECOGNITION_TOLERANCE

\* the face's nearest gallery entry is within the tolerance
Accepted(face) ==
    \E k \in 1..Len(known_face_encodings) : Within(known_face_encodings[k], face)

Nearest(face) ==
    { k \in 1..Len(known_face_encodings) :
        \A m \in 1..Len(known_face_encodings) :
            Abs(known_face_encodings[k] - face) <= Abs(known_face_encodings[m] - face) }

FirstAccepted(faces) ==
    CHOOSE k \in 1..Len(faces) :
        Accepted(faces[k]) /\ \A m \in 1..(k - 1) : ~Accepted(faces[m])

\* C1: every failure of a POST /recognize request is answered in-band: the
\* response is the handler's JSON body, and a response other than 200 has
\* status 400 or 500 and a non-null error; no exception leaves the handler.
C1_FailuresAnsweredInBand ==
    \A t \in Threads :
        Recognized(t) =>
            /\ req[t].resp.kind = "json"
            /\ req[t].resp.status \in {200, 400, 500}
            /\ req[t].resp.status # 200 => req[t].resp.error # None

\* C2: a body that is not valid JSON gets status 400, and a valid JSON body
\* without an imageData field, whatever JSON value it is, gets status 400
\* with a non-null error in the handler's JSON body; neither reaches the
\* decoding and matching steps.
C2_MalformedRequestIs400 ==
    \A t \in Threads :
        /\ ( /\ Recognized(t)
             /\ ~(req[t].body.is_json /\ req[t].body.parses) )
           => req[t].resp.status = 400
        /\ ( /\ Recognized(t)
             /\ req[t].body.is_json /\ req[t].body.parses
             /\ ~HasImageDataField(req[t].body) )
           => /\ req[t].resp.status = 400
              /\ req[t].resp.kind = "json"
              /\ req[t].resp.error # None
        /\ ( /\ req[t].state = "loop" )
           => HasImageDataField(req[t].body)

\* C3: an imageData that is valid base64 after padding correction and whose
\* bytes (none included) are not an image is answered 400 with recognized
\* false, name "Unknown" and the error that names the image as undecodable.
C3_UndecodableImageIs400 ==
    \A t \in Threads :
        ( /\ Recognized(t)
          /\ ValidBase64(req[t].body)
          /\ (DecodedBytes(req[t].body) = 0 \/ ~req[t].body.content.image) )
        => req[t].resp =
             Json(400, FALSE, Unknown, <<"Image processing error: ", CouldNotDecode>>)

\* C4: the name returned is that of a minimum-distance gallery entry of the
\* first face, in iteration order, whose nearest entry is within the
\* tolerance; the loop never goes past such a face, and a face whose nearest
\* entry is beyond the tolerance assigns no name.
C4_FirstAcceptedFaceNearestEntry ==
    \A t \in Threads :
        /\ ( /\ Recognized(t)
             /\ DecodedImage(req[t].body)
             /\ \E k \in 1..Len(req[t].body.content.faces) :
                    Accepted(req[t].body.content.faces[k]) )
           => LET faces == req[t].body.content.faces
              IN  /\ req[t].resp.status = 200
                  /\ req[t].resp.name \in
                       { known_face_names[k] : k \in Nearest(faces[FirstAccepted(faces)]) }
        /\ ( /\ req[t].state = "loop"
             /\ req[t].i <= Len(req[t].face_encodings) )
           => /\ req[t].recognized_name = Unknown
              /\ \A m \in 1..(req[t].i - 1) : ~Accepted(req[t].face_encodings[m])
        /\ ( /\ req[t].state = "loop"
             /\ \A m \in 1..Len(req[t].face_encodings) :
                    ~Accepted(req[t].face_encodings[m]) )
           => req[t].recognized_name = Unknown

\* C4 witness: a request answered with the entry of its first accepted face
\* although a later face is strictly nearer to some gallery entry.
C4_Witness ==
    \E t \in Threads :
        /\ Recognized(t)
        /\ DecodedImage(req[t].body)
        /\ LET faces == req[t].body.content.faces
           IN  /\ \E k \in 1..Len(faces) : Accepted(faces[k])
               /\ Len(known_face_encodings) = 2
               /\ \E m \in (FirstAccepted(faces) + 1)..Len(faces) :
                    \E e \in 1..2 : \A d \in 1..2 :
                        Abs(known_face_encodings[e] - faces[m]) <
                        Abs(known_face_encodings[d] - faces[FirstAccepted(faces)])
               /\ req[t].resp.recognized

\* C5: with one gallery entry, whatever its name, an image with a face
\* within the tolerance of that entry is answered 200, recognized true, with
\* the enrolled name.
C5_SoleEntryRecognized ==
    \A t \in Threads :
        ( /\ Recognized(t)
          /\ Len(known_face_names) = 1
          /\ DecodedImage(req[t].body)
          /\ \E k \in 1..Len(req[t].body.content.faces) :
                 Within(known_face_encodings[1], req[t].body.content.faces[k]) )
        => req[t].resp = Json(200, TRUE, known_face_names[1], None)

\* C6: a decoded image in which no face is accepted (no face, every face
\* beyond the tolerance, or an empty gallery) is answered 200, recognized
\* false, "Unknown", error null; with an empty gallery no response says
\* recognized true.
C6_NoAcceptedFaceIsUnknown ==
    \A t \in Threads :
        /\ ( /\ Recognized(t)
             /\ DecodedImage(req[t].body)
             /\ \A k \in 1..Len(req[t].body.content.faces) :
                    ~Accepted(req[t].body.content.faces[k]) )
           => req[t].resp = Json(200, FALSE, Unknown, None)
        /\ ( /\ Recognized(t)
             /\ known_face_encodings = <<>>
             /\ req[t].resp.kind = "json" )
           => ~req[t].resp.recognized

\* C6 witness: an image with a face, against a gallery with an entry, and
\* the face beyond the tolerance, answered.
C6_Witness ==
    \E t \in Threads :
        /\ Recognized(t)
        /\ DecodedImage(req[t].body)
        /\ known_face_encodings # <<>>
        /\ req[t].body.content.faces # <<>>
        /\ \A k \in 1..Len(req[t].body.content.faces) :
               ~Accepted(req[t].body.content.faces[k])
        /\ req[t].resp.status = 200

\* the supported extension a filename ends with, and the filename without it
ExtensionOf(filename) ==
    CHOOSE e \in SupportedExtensions : EndsWith(Lower(filename), e)

StrippedOfExtension(filename) ==
    SubSeq(filename, 1, Len(filename) - Len(ExtensionOf(filename)))

Enrollable(f) ==
    HasSupportedExtension(f.filename) /\ f.load = "ok" /\ Len(f.encodings) >= 1

RECURSIVE ExpectedGallery(_)
ExpectedGallery(files) ==
    IF files = <<>> THEN <<>>
    ELSE LET f == files[Len(files)]
             rest == ExpectedGallery(SubSeq(files, 1, Len(files) - 1))
         IN  IF Enrollable(f)
             THEN Append(rest, <<f.encodings[1], StrippedOfExtension(f.filename)>>)
             ELSE rest

Gallery ==
    [k \in 1..Len(known_face_names) |-> <<known_face_encodings[k], known_face_names[k]>>]

\* C7: while and after the loader runs, the gallery holds, in listing order,
\* one entry per consumed file with a supported extension that loaded and
\* has a face: its first embedding, with the filename stripped of its
\* extension.
C7_GalleryIsEnrollableFiles ==
    pc = "loading" =>
        /\ Len(known_face_encodings) = Len(known_face_names)
        /\ Gallery = ExpectedGallery(SubSeq(listing, 1, idx))

\* C8: GET /health answers 200, "ok" and the number of entries built at
\* startup, after any requests, and the request changes nothing else.
C8_HealthInv ==
    \A t \in Threads :
        (req[t].state = "done" /\ req[t].body.route = "health")
        => /\ req[t].resp.status = 200
           /\ req[t].resp.ok = "ok"
           /\ req[t].resp.known_faces_loaded = loaded_log

C8_HealthStep(t) ==
    /\ req[t].state = "idle"
    /\ req'[t].state = "done"
    /\ req'[t].body.route = "health"

\* C8: every health response is 200, "ok" and the startup count
\* (C8_HealthInv), and the step that serves a health request leaves the
\* gallery, the loader's state and the other thread's request unchanged.
C8_HealthReportsStartupCount ==
    /\ []C8_HealthInv
    /\ [][\A t \in Threads :
            C8_HealthStep(t) =>
                /\ UNCHANGED <<pc, listing, idx, known_face_encodings,
                               known_face_names, loaded_log, cv_empty_raises>>
                /\ \A u \in Threads \ {t} : req'[u] = req[u]]_vars

\* C8 witness: a health response given while the other thread has answered
\* a recognition request that matched, the gallery holding two entries.
C8_Witness ==
    \E t, u \in Threads :
        /\ req[t].state = "done" /\ req[t].body.route = "health"
        /\ Recognized(u) /\ req[u].resp.kind = "json" /\ req[u].resp.recognized
        /\ req[t].resp.known_faces_loaded = 2

\* C9: no step of a request changes the gallery, and two identical
\* /recognize requests get the same status and body, whatever is served in
\* between or at the same time.
C9_Idempotent ==
    \A t, u \in Threads :
        (Recognized(t) /\ Recognized(u) /\ req[t].body = req[u].body)
        => req[t].resp = req[u].resp

\* C9: identical requests get identical responses (C9_Idempotent) and no
\* step taken while serving changes known_face_encodings or known_face_names.
C9_GalleryReadOnly ==
    /\ []C9_Idempotent
    /\ [][pc = "serving" =>
            UNCHANGED <<known_face_encodings, known_face_names>>]_vars

\* C9 witness: both threads have answered the same image request, which
\* went through the loop and matched.
C9_Witness ==
    /\ Recognized("t1") /\ Recognized("t2")
    /\ req["t1"].body = req["t2"].body
    /\ DecodedImage(req["t1"].body)
    /\ Len(req["t1"].body.content.faces) = MaxFaces
    /\ req["t1"].resp.recognized

\* C10: in every JSON response of the handler, recognized is true exactly
\* when name is not "Unknown", error is null exactly when the status is 200,
\* and a 400 or 500 response has recognized false and name "Unknown".
C10_ResponseShape ==
    \A t \in Threads :
        (Recognized(t) /\ req[t].resp.kind = "json")
        => /\ req[t].resp.recognized <=> (req[t].resp.name # Unknown)
           /\ (req[t].resp.error = None) <=> (req[t].resp.status = 200)
           /\ req[t].resp.status \in {400, 500} =>
                (~req[t].resp.recognized /\ req[t].resp.name = Unknown)

\* C10 witness: a request that matched a gallery entry named "Unknown" has
\* been answered, and the other thread has answered one with status 500.
C10_Witness ==
    \E t, u \in Threads :
        /\ Recognized(t) /\ DecodedImage(req[t].body)
        /\ \E k \in 1..Len(req[t].body.content.faces) :
               Accepted(req[t].body.content.faces[k])
        /\ req[t].resp.name = Unknown
        /\ Recognized(u) /\ req[u].resp.kind = "json" /\ req[u].resp.status = 500
====
